---- MODULE Spec2Model ----
(***************************************************************************)
(* Model of the WWAQ glossary parser and of the Wozu-centred real-time     *)
(* communicator (ez-chajim-wozu-system.py, parser/wwaq_parser.py,          *)
(* src/glossar_manager.py, src/pardes/core/pardes_system.py).              *)
(*                                                                         *)
(* A text (Python str) is a sequence of one-character strings, so that     *)
(* substring tests, str.lower, str.replace and offsets are computed, not   *)
(* assumed.  A Python float is an IEEE-754 double, represented exactly     *)
(* (see "Doubles" below), so that sums such as 0.3 + 0.1 + 0.3 + 0.2 come  *)
(* out as the interpreter computes them.                                   *)
(***************************************************************************)
EXTENDS Integers, Sequences, FiniteSets, TLC

VARIABLES
    \* --- one sende_nachricht call on one message (specification SpecGate)
    g_nachricht,        \* the message a producer hands to sende_nachricht
    g_ergebnis,         \* what the call produced (NochNicht before the call)
    \* --- EchtzeitKommunikator (specification Spec)
    nachrichten_queue,  \* self.nachrichten_queue: the one shared asyncio.Queue
    aufrufe,            \* number of sende_nachricht calls made so far
    letzter_aufruf,     \* the last sende_nachricht call: message id and outcome
    empfangen,          \* per consumer: the messages its generator yielded
    verworfen,          \* messages taken from the queue and yielded to nobody
    p_text,             \* the text handed to WWAQGlossarParser.transformiere
    p_ergebnis,         \* what the last transformiere call returned
    p_aufrufe,          \* number of transformiere calls made so far
    statistik,          \* WWAQGlossarParser.statistik
    p_anzeige,          \* what the last zeige_statistik call returned
    \* --- generiere_wozu_bericht (specification SpecBericht)
    b_nachrichten,      \* the messages a caller keeps for the report
    bericht             \* what the last generiere_wozu_bericht call produced

komm_vars == <<g_nachricht, g_ergebnis, nachrichten_queue, aufrufe, letzter_aufruf,
               empfangen, verworfen>>

parser_vars == <<p_text, p_ergebnis, p_aufrufe, statistik, p_anzeige>>

bericht_vars == <<b_nachrichten, bericht>>

vars == <<komm_vars, parser_vars, bericht_vars>>

(***************************************************************************)
(* Texts                                                                   *)
(***************************************************************************)

\* s occurs in t starting at the 1-based position p
KommtVorAb(s, t, p) ==
    /\ p >= 1
    /\ p + Len(s) - 1 <= Len(t)
    /\ \A k \in 1..Len(s) : t[p + k - 1] = s[k]

\* Python: s in t
Enthaelt(s, t) == \E p \in 1..(Len(t) - Len(s) + 1) : KommtVorAb(s, t, p)

Grossbuchstaben ==
    <<"A", "B", "C", "D", "E", "F", "G", "H", "I", "J", "K", "L", "M", "N",
      "O", "P", "Q", "R", "S", "T", "U", "V", "W", "X", "Y", "Z", "Ä", "Ö", "Ü">>

Kleinbuchstaben ==
    <<"a", "b", "c", "d", "e", "f", "g", "h", "i", "j", "k", "l", "m", "n",
      "o", "p", "q", "r", "s", "t", "u", "v", "w", "x", "y", "z", "ä", "ö", "ü">>

LowerChar(ch) ==
    IF \E k \in 1..Len(Grossbuchstaben) : Grossbuchstaben[k] = ch
    THEN Kleinbuchstaben[CHOOSE k \in 1..Len(Grossbuchstaben) : Grossbuchstaben[k] = ch]
    ELSE ch

\* Python: t.lower()
Lower(t) == [k \in 1..Len(t) |-> LowerChar(t[k])]

RECURSIVE ReplaceAb(_, _, _, _)
ReplaceAb(t, old, new, p) ==
    IF p > Len(t) - Len(old) + 1 THEN SubSeq(t, p, Len(t))
    ELSE IF KommtVorAb(old, t, p) THEN new \o ReplaceAb(t, old, new, p + Len(old))
    ELSE <<t[p]>> \o ReplaceAb(t, old, new, p + 1)

\* Python: t.replace(old, new) for a non-empty old: every non-overlapping
\* occurrence, scanning from the left
Replace(t, old, new) == ReplaceAb(t, old, new, 1)

RECURSIVE Verkette(_)
Verkette(teile) == IF teile = <<>> THEN <<>> ELSE Head(teile) \o Verkette(Tail(teile))

\* all sequences over S of length at most n
RECURSIVE FolgenBis(_, _)
FolgenBis(S, n) ==
    IF n = 0 THEN {<<>>}
    ELSE LET kurz == FolgenBis(S, n - 1)
         IN  kurz \cup {Append(f, x) : f \in kurz, x \in S}

(***************************************************************************)
(* Doubles.  Every double the score computation meets is 0 or lies in      *)
(* [1/16, 2) and is therefore a multiple of 2^-56.  The double d is kept   *)
(* as [c, e] with d = (c * 2^56 + e) / (100 * 2^56): c is the value in     *)
(* hundredths the decimal notation names and e the rounding error, in      *)
(* units of 1/(100 * 2^56).  Sums and products are formed exactly and then *)
(* rounded to the nearest double, ties to even, as IEEE-754 prescribes.    *)
(***************************************************************************)

\* 2^56 modulo m, by squaring 2^7 three times
ZweiHoch56Mod(m) ==
    LET a == (128 * 128) % m
        b == (a * a) % m
    IN  (b * b) % m

\* the spacing of the doubles around (c, e), in units of 2^-56
Quantum(c, e) ==
    IF c > 100 \/ (c = 100 /\ e >= 0) THEN 16
    ELSE IF c > 50 \/ (c = 50 /\ e >= 0) THEN 8
    ELSE IF c > 25 \/ (c = 25 /\ e >= 0) THEN 4
    ELSE IF c >= 13 THEN 2
    ELSE 1

\* round the exact value (c * 2^56 + e) / (100 * 2^56) to the nearest double
Runde(c, e) ==
    LET M  == 100 * Quantum(c, e)
        r  == (c * ZweiHoch56Mod(M) + e) % M
        rr == (c * ZweiHoch56Mod(2 * M) + e) % (2 * M)
    IN  IF 2 * r < M THEN [c |-> c, e |-> e - r]
        ELSE IF 2 * r > M THEN [c |-> c, e |-> e + M - r]
        ELSE IF rr = r THEN [c |-> c, e |-> e - r]
        ELSE [c |-> c, e |-> e + M - r]

\* the double a decimal literal with the value h/100 denotes
Lit(h) == Runde(h, 0)

FAdd(a, b) == Runde(a.c + b.c, a.e + b.e)

\* Python: n * x for an int n and a float x
FMulInt(n, x) == Runde(n * x.c, n * x.e)

FLt(a, b) == a.c < b.c \/ (a.c = b.c /\ a.e < b.e)

FGt(a, b) == FLt(b, a)

\* Python: min(a, b)
FMin(a, b) == IF FLt(b, a) THEN b ELSE a

(***************************************************************************)
(* WozuValidator                                                           *)
(***************************************************************************)

\* FrageTyp: the member names of the enumeration
FrageTyp == {"WOZU", "WARUM", "WIE", "WAS", "WER", "WO", "WANN"}

\* Olam, the enumeration of src.azilut_konverter: the four worlds the
\* protocol names
Olam == {"AZILUT", "BERIJA", "JEZIRA", "ASIJA"}

\* EchtzeitNachricht declares no field weltebene, yet _finde_fehlende_aspekte
\* reads nachricht.weltebene.  An instance built by the dataclass constructor
\* carries none (KeinAttribut); it carries one only when its producer
\* assigned it on the instance after construction.
KeinAttribut == "KeinAttribut"

\* Python None
None == "None"

\* Python None in the field validierung, whose other values are records
KeineValidierung == [none |-> TRUE]

WOZU_INDIKATOREN ==
    << <<"u", "m", " ", "z", "u">>,
       <<"d", "a", "m", "i", "t">>,
       <<"z", "w", "e", "c", "k", "s">>,
       <<"z", "u", "r">>,
       <<"f", "ü", "r", " ", "d", "i", "e">>,
       <<"ל", "מ", "ע", "ן">>,
       <<"כ", "ד", "י">>,
       <<"ל", "ש", "ם">>,
       <<"ב", "ש", "ב", "י", "ל">> >>

AZILUT_MARKER ==
    << <<"א", "י", "ן", " ", "ס", "ו", "ף">>,
       <<"u", "n", "e", "n", "d", "l", "i", "c", "h", "e", "s", " ", "L",
         "i", "c", "h", "t">>,
       <<"E", "m", "a", "n", "a", "t", "i", "o", "n">>,
       <<"h", "ö", "c", "h", "s", "t", "e", " ", "A", "b", "s", "i", "c",
         "h", "t">>,
       <<"g", "ö", "t", "t", "l", "i", "c", "h", "e", "r", " ", "Z", "w",
         "e", "c", "k">>,
       <<"T", "i", "q", "q", "u", "n">> >>

\* The strings of a WozuValidierung.  A state keeps each as one value;
\* Zeichen gives its characters where the code looks into it.
KeinWozuDefiniert == "Kein Wozu definiert!"

DefiniereKlarenZweck == "Definiere klaren Zweck/Absicht"

WozuFrageNichtInHierarchie == "Wozu-Frage nicht in Hierarchie"

KeineKlarenZweckIndikatoren == "Keine klaren Zweck-Indikatoren"

ZuStarkInAsija == "Zu stark in Asija (Handlung) verhaftet"

FuegeWozuFrageHinzu == "Füge primäre Wozu-Frage hinzu: 'Wozu dient diese Kommunikation?'"

VerwendeZweckFormulierungen == "Verwende klare Zweck-Formulierungen: 'um zu...', 'damit...'"

ErhebePerspektive == "Erhebe Perspektive: Von WAS (Asija) zu WOZU (Azilut)"

VerwendeWWAQSprache == "Verwende WWAQ-konforme Sprache: wandeln statt wandeln, bersten statt bersten"

Zeichen(s) ==
    CASE s = KeinWozuDefiniert ->
           <<"K", "e", "i", "n", " ", "W", "o", "z", "u", " ", "d", "e",
             "f", "i", "n", "i", "e", "r", "t", "!">>
      [] s = WozuFrageNichtInHierarchie ->
           <<"W", "o", "z", "u", "-", "F", "r", "a", "g", "e", " ", "n",
             "i", "c", "h", "t", " ", "i", "n", " ", "H", "i", "e", "r",
             "a", "r", "c", "h", "i", "e">>
      [] s = KeineKlarenZweckIndikatoren ->
           <<"K", "e", "i", "n", "e", " ", "k", "l", "a", "r", "e", "n",
             " ", "Z", "w", "e", "c", "k", "-", "I", "n", "d", "i", "k",
             "a", "t", "o", "r", "e", "n">>
      [] s = ZuStarkInAsija ->
           <<"Z", "u", " ", "s", "t", "a", "r", "k", " ", "i", "n", " ",
             "A", "s", "i", "j", "a", " ", "(", "H", "a", "n", "d", "l",
             "u", "n", "g", ")", " ", "v", "e", "r", "h", "a", "f", "t",
             "e", "t">>

\* the double 0.0
Null == [c |-> 0, e |-> 0]

\* wozu_count with the purpose matched as written, not lowered
wozu_count_ohne_lower(nachricht) ==
    Cardinality({k \in 1..Len(WOZU_INDIKATOREN) :
                    Enthaelt(WOZU_INDIKATOREN[k], nachricht.wozu)})

\* sum(1 for ind in self.WOZU_INDIKATOREN if ind in nachricht.wozu.lower())
wozu_count(nachricht) ==
    Cardinality({k \in 1..Len(WOZU_INDIKATOREN) :
                    Enthaelt(WOZU_INDIKATOREN[k], Lower(nachricht.wozu))})

\* sum(1 for marker in self.AZILUT_MARKER
\*     if marker in nachricht.inhalt or marker in nachricht.wozu)
azilut_count(nachricht) ==
    Cardinality({k \in 1..Len(AZILUT_MARKER) :
                    \/ Enthaelt(AZILUT_MARKER[k], nachricht.inhalt)
                    \/ Enthaelt(AZILUT_MARKER[k], nachricht.wozu)})

\* _berechne_azilut_score with no contribution capped and no final min
berechne_ohne_deckel(nachricht) ==
    FAdd(FAdd(FAdd(IF nachricht.wozu # <<>> THEN FAdd(Null, Lit(30)) ELSE Null,
                   FMulInt(wozu_count(nachricht), Lit(10))),
              FMulInt(azilut_count(nachricht), Lit(15))),
         IF "WOZU" \in nachricht.frage_hierarchie THEN Lit(20) ELSE Null)

berechne_azilut_score(nachricht) ==
    LET s1 == IF nachricht.wozu # <<>> THEN FAdd(Null, Lit(30)) ELSE Null
        s2 == FAdd(s1, FMin(FMulInt(wozu_count(nachricht), Lit(10)), Lit(20)))
        s3 == FAdd(s2, FMin(FMulInt(azilut_count(nachricht), Lit(15)), Lit(30)))
        s4 == IF "WOZU" \in nachricht.frage_hierarchie THEN FAdd(s3, Lit(20)) ELSE s3
    IN  FMin(s4, Lit(100))

\* _finde_fehlende_aspekte: the list, or the AttributeError that reading
\* nachricht.weltebene raises on an instance without that attribute
finde_fehlende_aspekte(nachricht) ==
    LET f1 == IF "WOZU" \notin nachricht.frage_hierarchie
              THEN <<WozuFrageNichtInHierarchie>> ELSE <<>>
        f2 == IF ~ \E k \in 1..Len(WOZU_INDIKATOREN) :
                     Enthaelt(WOZU_INDIKATOREN[k], Lower(nachricht.wozu))
              THEN Append(f1, KeineKlarenZweckIndikatoren) ELSE f1
    IN  IF nachricht.weltebene = KeinAttribut
        THEN [ausgang |-> "AttributeError", wert |-> <<>>]
        ELSE [ausgang |-> "return",
              wert |-> IF nachricht.weltebene = "ASIJA"
                       THEN Append(f2, ZuStarkInAsija) ELSE f2]

\* the body of the loop of _generiere_korrekturen for one entry
korrektur_fuer(fehler) ==
    IF Enthaelt(<<"W", "o", "z", "u", "-", "F", "r", "a", "g", "e">>, Zeichen(fehler))
    THEN <<FuegeWozuFrageHinzu>>
    ELSE IF Enthaelt(<<"Z", "w", "e", "c", "k", "-", "I", "n", "d", "i",
                       "k", "a", "t", "o", "r", "e", "n">>, Zeichen(fehler))
    THEN <<VerwendeZweckFormulierungen>>
    ELSE IF Enthaelt(<<"A", "s", "i", "j", "a">>, Zeichen(fehler))
    THEN <<ErhebePerspektive>>
    ELSE <<>>

RECURSIVE korrekturen_ab(_, _)
korrekturen_ab(fehlende, k) ==
    IF k > Len(fehlende) THEN <<>>
    ELSE korrektur_fuer(fehlende[k]) \o korrekturen_ab(fehlende, k + 1)

\* _generiere_korrekturen without the remediation it appends after the loop
korrekturen_nur_schleife(fehlende) == korrekturen_ab(fehlende, 1)

generiere_korrekturen(fehlende) ==
    Append(korrekturen_ab(fehlende, 1), VerwendeWWAQSprache)

\* the WozuValidierung of the early return for an empty wozu
validierung_ohne_wozu ==
    [ist_verankert |-> FALSE,
     azilut_score |-> Null,
     fehlende_wozu_aspekte |-> <<KeinWozuDefiniert>>,
     empfohlene_korrekturen |-> <<DefiniereKlarenZweck>>,
     weltebene |-> "ASIJA"]

\* the WozuValidierung of the last return
validierung_mit_wozu(nachricht, fehlende, welt) ==
    [ist_verankert |-> FGt(berechne_azilut_score(nachricht), Lit(70)),
     azilut_score |-> berechne_azilut_score(nachricht),
     fehlende_wozu_aspekte |-> fehlende,
     empfohlene_korrekturen |-> generiere_korrekturen(fehlende),
     weltebene |-> welt]

\* validiere_wozu_zentrierung without the early return for an empty wozu
validiere_ohne_kurzschluss(nachricht, welt) ==
    IF finde_fehlende_aspekte(nachricht).ausgang = "AttributeError"
    THEN [ausgang |-> "AttributeError", validierung |-> None]
    ELSE [ausgang |-> "return",
          validierung |-> validierung_mit_wozu(nachricht,
                              finde_fehlende_aspekte(nachricht).wert, welt)]

\* validiere_wozu_zentrierung.  welt is what AzilutKonverter.erkenne_weltebene
\* returns for nachricht.inhalt.  The result is the returned WozuValidierung,
\* or the AttributeError that leaves the call.
validiere_wozu_zentrierung(nachricht, welt) ==
    IF nachricht.wozu = <<>>
    THEN [ausgang |-> "return", validierung |-> validierung_ohne_wozu]
    ELSE IF finde_fehlende_aspekte(nachricht).ausgang = "AttributeError"
    THEN [ausgang |-> "AttributeError", validierung |-> None]
    ELSE [ausgang |-> "return",
          validierung |-> validierung_mit_wozu(nachricht,
                              finde_fehlende_aspekte(nachricht).wert, welt)]

(***************************************************************************)
(* GlossarManager                                                          *)
(***************************************************************************)

\* self.glossar['transformationen']: the two mappings of
\* docs/glossar/wwaq-glossar.yaml, as (old, new) pairs in file order
K_zu_Q ==
    << <<<<"K", "a", "b", "b", "a", "l", "a">>, <<"Q", "a", "b", "b", "a", "l", "a">>>>,
       <<<<"K", "a", "w", "a", "n", "a">>, <<"Q", "a", "w", "a", "n", "a">>>>,
       <<<<"W", "W", "A", "K">>, <<"W", "W", "A", "Q">>>> >>

Zer_Elimination ==
    << <<<<"z", "e", "r", "b", "r", "e", "c", "h", "e", "n">>, <<"b", "e", "r", "s", "t", "e", "n">>>>,
       <<<<"z", "e", "r", "s", "t", "ö", "r", "e", "n">>, <<"w", "a", "n", "d", "e", "l", "n">>>> >>

RECURSIVE ErsetzeAlle(_, _, _)
ErsetzeAlle(text, paare, k) ==
    IF k > Len(paare) THEN text
    ELSE ErsetzeAlle(Replace(text, paare[k][1], paare[k][2]), paare, k + 1)

\* GlossarManager.transform
transform(text) == ErsetzeAlle(ErsetzeAlle(text, K_zu_Q, 1), Zer_Elimination, 1)

(***************************************************************************)
(* PardesAnalyzer, as far as sende_nachricht reads it                      *)
(***************************************************************************)

\* SodProcessor.process: the secrets it collects.  _deep_gematria_analysis
\* returns a non-empty string for every text, so the first entry is always
\* there; the interpretation is the sentinel only for an empty list.
SodSecrets(text) == <<"Tiefe Gematria">>

\* Python: ord(ch) for a letter, 0 for a character that is not isalpha()
ord(ch) ==
    IF \E k \in 1..26 : Grossbuchstaben[k] = ch
    THEN 64 + (CHOOSE k \in 1..26 : Grossbuchstaben[k] = ch)
    ELSE IF \E k \in 1..26 : Kleinbuchstaben[k] = ch
    THEN 96 + (CHOOSE k \in 1..26 : Kleinbuchstaben[k] = ch)
    ELSE CASE ch = "Ä" -> 196 [] ch = "Ö" -> 214 [] ch = "Ü" -> 220
           [] ch = "ä" -> 228 [] ch = "ö" -> 246 [] ch = "ü" -> 252
           [] OTHER -> 0

\* gematria_value, the fallback of the module: the sum of ord over the letters
RECURSIVE gematria_value(_)
gematria_value(text) ==
    IF text = <<>> THEN 0 ELSE ord(Head(text)) + gematria_value(Tail(text))

\* Python: text.split(), the text being letters and blanks
RECURSIVE split(_)
split(text) ==
    IF text = <<>> THEN <<>>
    ELSE IF Head(text) = " " THEN split(Tail(text))
    ELSE LET ende == IF \E p \in 1..Len(text) : text[p] = " "
                     THEN (CHOOSE p \in 1..Len(text) :
                              text[p] = " " /\ \A q \in 1..(p - 1) : text[q] # " ") - 1
                     ELSE Len(text)
         IN  <<SubSeq(text, 1, ende)>> \o split(SubSeq(text, ende + 1, Len(text)))

\* RemezProcessor._find_gematria_hints: the words of a significant value
find_gematria_hints(text) ==
    SelectSeq(split(text), LAMBDA wort : gematria_value(wort) \in {26, 72, 216, 358})

\* RemezProcessor.process: the hints it collects.  _find_acronyms returns
\* none, and _find_number_patterns looks for runs of Hebrew letters, of which
\* a text of Latin letters has none.
RemezHints(text) == find_gematria_hints(text)

\* DraschProcessor.process: the interpretations it collects.
\* _analyze_structure returns a non-empty string for every text, so that
\* entry is always there; the Midrasch patterns and the themes are Hebrew
\* words, of which a text of Latin letters has none.
DraschInterpretations(text) == <<"Strukturanalyse">>

\* the levels from the lowest to the highest
PardesAufsteigend == <<"PSCHAT", "REMEZ", "DRASCH", "SOD">>

\* whether analyze_text(text)[ebene].interpretation is the string
\* "Die Geheimnisse bleiben verborgen"
IstVerborgen(ebene, text) == ebene = "SOD" /\ SodSecrets(text) = <<>>

PardesReihenfolge == <<"SOD", "DRASCH", "REMEZ", "PSCHAT">>

\* the loop of sende_nachricht over SOD, DRASCH, REMEZ, PSCHAT
WaehlePardesEbene(text) ==
    LET treffer == {k \in 1..Len(PardesReihenfolge) :
                       ~ IstVerborgen(PardesReihenfolge[k], text)}
    IN  IF treffer = {} THEN None
        ELSE PardesReihenfolge[CHOOSE k \in treffer : \A j \in treffer : k <= j]

(***************************************************************************)
(* EchtzeitKommunikator                                                    *)
(***************************************************************************)

\* the modules that receive: the recipients the example modules address
Module == {"wwaq-validator", "pardes-analyzer"}

\* the running empfange_nachrichten generators and the modul_name of each
Konsumenten == {"k1", "k2"}

modul_name(k) == IF k = "k1" THEN "wwaq-validator" ELSE "pardes-analyzer"

\* glossar_konform with the purpose left as the producer wrote it
glossar_nur_inhalt(nachricht) ==
    [nachricht EXCEPT !.inhalt = transform(nachricht.inhalt)]

\* step 0 of sende_nachricht: content and purpose rewritten by the glossary
glossar_konform(nachricht) ==
    [nachricht EXCEPT !.inhalt = transform(nachricht.inhalt),
                      !.wozu = transform(nachricht.wozu)]

\* step 3 of sende_nachricht: the Pardes level, unless the message has one
mit_pardes_ebene(nachricht) ==
    IF nachricht.pardes_ebene = None
    THEN [nachricht EXCEPT !.pardes_ebene = WaehlePardesEbene(nachricht.inhalt)]
    ELSE nachricht

\* sende_validiert with the put ahead of the block: a message that is not
\* anchored is enqueued before False is returned
sende_validiert_ohne_block(n0, v, queue) ==
    IF v.ausgang = "AttributeError"
    THEN [ausgang |-> "AttributeError", nachricht |-> n0, queue |-> queue]
    ELSE LET n3 == mit_pardes_ebene([n0 EXCEPT !.validierung = v.validierung,
                                              !.spiral_zeit = "current_spiral_time"])
         IN  [ausgang |-> IF v.validierung.ist_verankert THEN "True" ELSE "False",
              nachricht |-> n3, queue |-> Append(queue, n3)]

\* sende_nachricht from the block on: n0 is the rewritten message and v the
\* outcome of validiere_wozu_zentrierung on it
sende_validiert(n0, v, queue) ==
    IF v.ausgang = "AttributeError"
    THEN [ausgang |-> "AttributeError", nachricht |-> n0, queue |-> queue]
    ELSE IF ~ v.validierung.ist_verankert
    THEN [ausgang |-> "False",
          nachricht |-> [n0 EXCEPT !.validierung = v.validierung],
          queue |-> queue]
    ELSE LET n3 == mit_pardes_ebene([n0 EXCEPT !.validierung = v.validierung,
                                              !.spiral_zeit = "current_spiral_time"])
         IN  [ausgang |-> "True", nachricht |-> n3, queue |-> Append(queue, n3)]

\* sende_nachricht on the message nachricht, given the queue; welt is the
\* result of AzilutKonverter.erkenne_weltebene.  The result is the outcome
\* of the call (what it returned, or the exception that left it), the
\* message object as the call left it, and the queue afterwards.
sende_nachricht(nachricht, welt, queue) ==
    sende_validiert(glossar_konform(nachricht),
                    validiere_wozu_zentrierung(glossar_konform(nachricht), welt),
                    queue)

\* empfange_nachrichten without the test of the recipient: whatever is taken
\* from the queue is yielded
empfange_ohne_pruefung(modul, queue) ==
    [queue |-> Tail(queue), nachricht |-> Head(queue), yield |-> TRUE]

\* one pass of the loop of empfange_nachrichten(modul): take the head of the
\* queue and yield it if it is addressed to modul, else go on to the next get
empfange_nachrichten(modul, queue) ==
    [queue |-> Tail(queue),
     nachricht |-> Head(queue),
     yield |-> Head(queue).empfaenger_modul = modul]

(***************************************************************************)
(* generiere_wozu_bericht                                                  *)
(***************************************************************************)

\* bericht before generiere_wozu_bericht was called
KeinBericht == [ausgang |-> "KeinBericht"]

\* Python: the truth value of n.validierung, a WozuValidierung or None
hat_validierung(n) == n.validierung # KeineValidierung

\* the messages of the list that carry a verdict
mit_validierung(nachrichten) == SelectSeq(nachrichten, hat_validierung)

\* the messages of the list that carry a verdict that is not anchored
nicht_verankert(nachrichten) ==
    SelectSeq(nachrichten,
              LAMBDA n : hat_validierung(n) /\ ~ n.validierung.ist_verankert)

\* alle_empfehlungen: the remediations of the messages not anchored, in turn
RECURSIVE alle_empfehlungen(_)
alle_empfehlungen(nachrichten) ==
    IF nachrichten = <<>> THEN <<>>
    ELSE (IF hat_validierung(Head(nachrichten))
             /\ ~ Head(nachrichten).validierung.ist_verankert
          THEN Head(nachrichten).validierung.empfohlene_korrekturen
          ELSE <<>>) \o alle_empfehlungen(Tail(nachrichten))

\* Counter(liste): how often each entry occurs
Counter(liste) ==
    [x \in {liste[k] : k \in 1..Len(liste)} |->
        Cardinality({k \in 1..Len(liste) : liste[k] = x})]

\* what a generiere_wozu_bericht call that returns has put into its report:
\* the counts of the two statistics lines, the average as the scores summed
\* and the number they are divided by, the distribution of the worlds and
\* the counted remediations
bericht_inhalt(nachrichten) ==
    [ausgang |-> "return",
     anzahl |-> Len(nachrichten),
     verankert |-> Len(mit_validierung(nachrichten))
                       - Len(nicht_verankert(nachrichten)),
     scores |-> [k \in 1..Len(mit_validierung(nachrichten)) |->
                    mit_validierung(nachrichten)[k].validierung.azilut_score],
     weltebenen_count |->
         Counter([k \in 1..Len(mit_validierung(nachrichten)) |->
                     mit_validierung(nachrichten)[k].validierung.weltebene]),
     empf_counter |-> Counter(alle_empfehlungen(nachrichten))]

\* generiere_wozu_bericht: the sum of the scores and the number of anchored
\* messages are divided by len(nachrichten)
generiere_wozu_bericht(nachrichten) ==
    IF Len(nachrichten) = 0
    THEN [ausgang |-> "ZeroDivisionError"]
    ELSE bericht_inhalt(nachrichten)

(***************************************************************************)
(* Bounds and inputs                                                       *)
(***************************************************************************)

\* sende_nachricht calls in one run of Spec
MaxAufrufe == 4

\* pieces a purpose text of SpecGate is put together from
MaxWozuTeile == 2

\* pieces a content text of SpecGate is put together from
MaxInhaltTeile == 2

WozuTeile == {<<"u", "m", " ", "z", "u", "r">>, <<"D", "a", "m", "i", "t", " ", "T", "i", "q",
                           "q", "u", "n", " ", "h", "ö", "c", "h", "s",
                           "t", "e", " ", "A", "b", "s", "i", "c", "h",
                           "t">>}

InhaltTeile == {<<"E", "m", "a", "n", "a", "t", "i", "o", "n">>, <<"T", "i", "q", "q", "u", "n", " ">>}

WozuTexte == {Verkette(f) : f \in FolgenBis(WozuTeile, MaxWozuTeile)}

InhaltTexte == {Verkette(f) : f \in FolgenBis(InhaltTeile, MaxInhaltTeile)}

Hierarchien == {{"WOZU", "WAS"}, {"WOZU"}, {"WAS", "WIE"}, {}}

\* results of AzilutKonverter.erkenne_weltebene met in SpecGate
ErkannteWelten == {"AZILUT", "ASIJA"}

\* the result of AzilutKonverter.erkenne_weltebene met in Spec, where
\* nothing reads it
GateWelten == {"ASIJA"}

\* a message as a producer hands it over: the dataclass fields, the
\* attribute weltebene if the producer assigned one, and id, which stands
\* for the identity of the Python object
Nachricht(id, inhalt, wozu, empf, hierarchie, welt_attribut) ==
    [id |-> id, inhalt |-> inhalt, wozu |-> wozu,
     sender_modul |-> "manuscript-proc", empfaenger_modul |-> empf,
     frage_hierarchie |-> hierarchie, pardes_ebene |-> None,
     spiral_zeit |-> None, validierung |-> KeineValidierung,
     weltebene |-> welt_attribut]

EinzelNachrichten ==
    {Nachricht(0, inhalt, wozu, "wwaq-validator", h, w) :
        inhalt \in InhaltTexte, wozu \in WozuTexte, h \in Hierarchien,
        w \in {KeinAttribut, "ASIJA", "AZILUT"}}

GateInhalte == {<<"E", "m", "a", "n", "a", "t", "i", "o", "n", " ", "T",
                  "i", "q", "q", "u", "n", " ", "K", "a", "b", "b", "a",
                  "l", "a">>, <<"K", "a", "b", "b", "a",
                                               "l", "a">>}

GateWozu == {<<>>, <<"D", "a", "m", "i", "t">>}

GateNachrichten(id) ==
    {Nachricht(id, inhalt, wozu, empf, {"WOZU", "WAS"}, w) :
        inhalt \in GateInhalte, wozu \in GateWozu, empf \in Module,
        w \in {KeinAttribut, "AZILUT"}}

\* g_ergebnis before sende_nachricht was called
NochNicht == [ausgang |-> "NochNicht", nachricht |-> None, queue |-> <<>>]

\* letzter_aufruf before the first sende_nachricht call
KeinAufruf == [ausgang |-> "KeinAufruf", id |-> 0]

(***************************************************************************)
(* WWAQGlossarParser                                                       *)
(***************************************************************************)

\* k_zu_q with Kabbalah rewritten to Kabbala, the token of the rule before it
k_zu_q_kettenregel ==
    << <<<<"W", "W", "A", "K">>, <<"W", "W", "A", "Q">>>>,
       <<<<"K", "a", "b", "b", "a", "l", "a">>, <<"Q", "a", "b", "b", "a", "l", "a">>>>,
       <<<<"K", "a", "b", "b", "a", "l", "a", "h">>, <<"K", "a", "b", "b", "a", "l", "a">>>>,
       <<<<"k", "a", "b", "b", "a", "l", "i", "s", "t", "i", "s", "c", "h">>, <<"q", "a", "b", "b", "a", "l", "i", "s", "t",
                             "i", "s", "c", "h">>>>,
       <<<<"K", "a", "b", "b", "a", "l", "i", "s", "t">>, <<"Q", "a", "b", "b", "a", "l", "i", "s", "t">>>>,
       <<<<"K", "a", "b", "b", "a", "l", "i", "s", "t", "e", "n">>, <<"Q", "a", "b", "b", "a", "l", "i", "s", "t",
                           "e", "n">>>>,
       <<<<"K", "a", "w", "a", "n", "a">>, <<"Q", "a", "w", "a", "n", "a">>>>,
       <<<<"K", "a", "v", "a", "n", "a", "h">>, <<"Q", "a", "w", "a", "n", "a">>>>,
       <<<<"K", "a", "v", "a", "n", "a">>, <<"Q", "a", "w", "a", "n", "a">>>> >>

\* _initialisiere_transformationen: the rules of a category in the order of
\* the dict, each the word between the two \b of its pattern and its
\* replacement
k_zu_q ==
    << <<<<"W", "W", "A", "K">>, <<"W", "W", "A", "Q">>>>,
       <<<<"K", "a", "b", "b", "a", "l", "a">>, <<"Q", "a", "b", "b", "a", "l", "a">>>>,
       <<<<"K", "a", "b", "b", "a", "l", "a", "h">>, <<"Q", "a", "b", "b", "a", "l", "a">>>>,
       <<<<"k", "a", "b", "b", "a", "l", "i", "s", "t", "i", "s", "c", "h">>, <<"q", "a", "b", "b", "a", "l", "i", "s", "t",
                             "i", "s", "c", "h">>>>,
       <<<<"K", "a", "b", "b", "a", "l", "i", "s", "t">>, <<"Q", "a", "b", "b", "a", "l", "i", "s", "t">>>>,
       <<<<"K", "a", "b", "b", "a", "l", "i", "s", "t", "e", "n">>, <<"Q", "a", "b", "b", "a", "l", "i", "s", "t",
                           "e", "n">>>>,
       <<<<"K", "a", "w", "a", "n", "a">>, <<"Q", "a", "w", "a", "n", "a">>>>,
       <<<<"K", "a", "v", "a", "n", "a", "h">>, <<"Q", "a", "w", "a", "n", "a">>>>,
       <<<<"K", "a", "v", "a", "n", "a">>, <<"Q", "a", "w", "a", "n", "a">>>> >>

zer_elimination ==
    << <<<<"z", "e", "r", "b", "r", "e", "c", "h", "e", "n">>, <<"b", "e", "r", "s", "t", "e", "n">>>>,
       <<<<"z", "e", "r", "b", "r", "a", "c", "h">>, <<"b", "a", "r", "s", "t">>>>,
       <<<<"z", "e", "r", "b", "r", "a", "c", "h", "e", "n">>, <<"b", "a", "r", "s", "t", "e", "n">>>>,
       <<<<"z", "e", "r", "b", "r", "i", "c", "h", "t">>, <<"b", "e", "r", "s", "t", "e", "t">>>>,
       <<<<"z", "e", "r", "b", "r", "o", "c", "h", "e", "n">>, <<"g", "e", "b", "o", "r", "s", "t", "e", "n">>>>,
       <<<<"Z", "e", "r", "b", "r", "e", "c", "h", "e", "n">>, <<"B", "e", "r", "s", "t", "e", "n">>>>,
       <<<<"Z", "e", "r", "b", "r", "u", "c", "h">>, <<"B", "e", "r", "s", "t", "e", "n">>>>,
       <<<<"z", "e", "r", "s", "t", "ö", "r", "e", "n">>, <<"w", "a", "n", "d", "e", "l", "n">>>>,
       <<<<"z", "e", "r", "s", "t", "ö", "r", "t">>, <<"g", "e", "w", "a", "n", "d", "e", "l", "t">>>>,
       <<<<"z", "e", "r", "s", "t", "ö", "r", "t", "e">>, <<"w", "a", "n", "d", "e", "l", "t", "e">>>>,
       <<<<"z", "e", "r", "s", "t", "ö", "r", "t", "e", "n">>, <<"w", "a", "n", "d", "e", "l", "t", "e", "n">>>>,
       <<<<"z", "e", "r", "s", "t", "ö", "r", "e", "n", "d">>, <<"w", "a", "n", "d", "e", "l", "n", "d">>>>,
       <<<<"Z", "e", "r", "s", "t", "ö", "r", "u", "n", "g">>, <<"W", "a", "n", "d", "l", "u", "n", "g">>>>,
       <<<<"z", "e", "r", "r", "e", "i", "ß", "e", "n">>, <<"ö", "f", "f", "n", "e", "n">>>>,
       <<<<"z", "e", "r", "r", "i", "s", "s">>, <<"ö", "f", "f", "n", "e", "t", "e">>>>,
       <<<<"z", "e", "r", "r", "i", "s", "s", "e", "n">>, <<"g", "e", "ö", "f", "f", "n", "e", "t">>>>,
       <<<<"z", "e", "r", "r", "e", "i", "ß", "t">>, <<"ö", "f", "f", "n", "e", "t">>>>,
       <<<<"z", "e", "r", "f", "a", "l", "l", "e", "n">>, <<"s", "i", "c", "h", " ", "w", "a", "n", "d", "e",
                         "l", "n">>>>,
       <<<<"z", "e", "r", "f", "ä", "l", "l", "t">>, <<"w", "a", "n", "d", "e", "l", "t", " ", "s", "i",
                        "c", "h">>>>,
       <<<<"z", "e", "r", "f", "i", "e", "l">>, <<"w", "a", "n", "d", "e", "l", "t", "e", " ", "s",
                       "i", "c", "h">>>>,
       <<<<"z", "e", "r", "f", "i", "e", "l", "e", "n">>, <<"w", "a", "n", "d", "e", "l", "t", "e", "n", " ",
                         "s", "i", "c", "h">>>>,
       <<<<"z", "e", "r", "s", "c", "h", "l", "a", "g", "e", "n">>, <<"ö", "f", "f", "n", "e", "n">>>>,
       <<<<"z", "e", "r", "s", "c", "h", "l", "u", "g">>, <<"ö", "f", "f", "n", "e", "t", "e">>>>,
       <<<<"z", "e", "r", "s", "c", "h", "l", "ä", "g", "t">>, <<"ö", "f", "f", "n", "e", "t">>>>,
       <<<<"v", "e", "r", "s", "c", "h", "w", "i", "n", "d", "e", "n">>, <<"s", "c", "h", "w", "i", "n", "d", "e", "n">>>>,
       <<<<"v", "e", "r", "s", "c", "h", "w", "a", "n", "d">>, <<"s", "c", "h", "w", "a", "n", "d">>>>,
       <<<<"v", "e", "r", "s", "c", "h", "w", "u", "n", "d", "e", "n">>, <<"g", "e", "s", "c", "h", "w", "u", "n", "d",
                            "e", "n">>>> >>

din_31636 ==
    << <<<<"T", "z", "i", "m", "t", "z", "u", "m">>, <<"Z", "i", "m", "z", "u", "m">>>>,
       <<<<"T", "z", "i", "m", "z", "u", "m">>, <<"Z", "i", "m", "z", "u", "m">>>>,
       <<<<"D", "v", "e", "k", "u", "t">>, <<"D", "w", "e", "k", "u", "t">>>>,
       <<<<"D", "e", "v", "e", "k", "u", "t">>, <<"D", "w", "e", "k", "u", "t">>>>,
       <<<<"T", "i", "k", "k", "u", "n">>, <<"T", "i", "q", "q", "u", "n">>>>,
       <<<<"T", "i", "k", "u", "n">>, <<"T", "i", "q", "q", "u", "n">>>>,
       <<<<"A", "t", "z", "i", "l", "u", "t">>, <<"A", "z", "i", "l", "u", "t">>>>,
       <<<<"A", "t", "z", "i", "l", "u", "t", "h">>, <<"A", "z", "i", "l", "u", "t">>>> >>

\* self.transformationen, in the order .items() walks it
transformationen ==
    << [kategorie |-> "k_zu_q", regeln |-> k_zu_q],
       [kategorie |-> "zer_elimination", regeln |-> zer_elimination],
       [kategorie |-> "din_31636", regeln |-> din_31636] >>

\* the rules in the order the two nested loops of transformiere meet them
RegelnVon(k) ==
    [j \in 1..Len(transformationen[k].regeln) |->
        [kategorie |-> transformationen[k].kategorie,
         muster |-> transformationen[k].regeln[j][1],
         ersatz |-> transformationen[k].regeln[j][2]]]

Regeln == RegelnVon(1) \o RegelnVon(2) \o RegelnVon(3)

\* the characters of the texts met here that \w of re does not match; the
\* letters, umlauts and sharp s included, are all matched by \w
NichtWortzeichen == {" ", ".", ",", "-", "!", "?"}

IstWortzeichen(ch) == ch \notin NichtWortzeichen

\* \b of re at the 1-based position p of t, Len(t) + 1 being the end: the
\* characters on the two sides differ in being word characters, the outside
\* of t counting as none
Wortgrenze(t, p) ==
    (p > 1 /\ IstWortzeichen(t[p - 1])) # (p <= Len(t) /\ IstWortzeichen(t[p]))

\* the pattern \bwort\b matches t from p on
PasstAb(wort, t, p) ==
    /\ KommtVorAb(wort, t, p)
    /\ Wortgrenze(t, p)
    /\ Wortgrenze(t, p + Len(wort))

\* the members of a set of numbers in ascending order
RECURSIVE Aufsteigend(_)
Aufsteigend(S) ==
    IF S = {} THEN <<>>
    ELSE <<CHOOSE x \in S : \A y \in S : x <= y>>
            \o Aufsteigend(S \ {CHOOSE x \in S : \A y \in S : x <= y})

\* list(re.finditer(muster, t)): the 1-based starts of the matches from left
\* to right.  wort has word characters only, so that a match is a whole word
\* of t and no two matches overlap.
finditer(wort, t) ==
    Aufsteigend({p \in 1..(Len(t) - Len(wort) + 1) : PasstAb(wort, t, p)})

\* re.sub from the k-th match on: the replacement, then t up to the next
\* match or to its end
RECURSIVE sub_ab(_, _, _, _, _)
sub_ab(wort, ersatz, t, treffer, k) ==
    IF k > Len(treffer) THEN <<>>
    ELSE ersatz
            \o SubSeq(t, treffer[k] + Len(wort),
                      IF k = Len(treffer) THEN Len(t) ELSE treffer[k + 1] - 1)
            \o sub_ab(wort, ersatz, t, treffer, k + 1)

\* re.sub(muster, ersatz, t)
sub(wort, ersatz, t) ==
    IF finditer(wort, t) = <<>> THEN t
    ELSE SubSeq(t, 1, finditer(wort, t)[1] - 1) \o sub_ab(wort, ersatz, t, finditer(wort, t), 1)

\* the characters taken on each side of a match for 'kontext'
Kontextbreite == 20

\* Python: t[von:bis] for 0 <= von
Ausschnitt(t, von, bis) == SubSeq(t, von + 1, IF bis < Len(t) THEN bis ELSE Len(t))

\* the records appended for one rule: one for each match found in the text
\* before the substitution (vorher), start and end being those of the match
\* there, 0-based, and kontext a slice of the text after it (nachher).
\* zeitstempel, the wall clock, is left out.
aenderungen_fuer(regel, vorher, nachher) ==
    [k \in 1..Len(finditer(regel.muster, vorher)) |->
        [kategorie |-> regel.kategorie,
         original |-> regel.muster,
         ersatz |-> regel.ersatz,
         position |-> finditer(regel.muster, vorher)[k] - 1,
         kontext |-> Ausschnitt(nachher,
                        IF finditer(regel.muster, vorher)[k] - 1 - Kontextbreite > 0
                        THEN finditer(regel.muster, vorher)[k] - 1 - Kontextbreite ELSE 0,
                        finditer(regel.muster, vorher)[k] - 1 + Len(regel.muster)
                            + Kontextbreite)]]

\* transformiere_ab with the records of a rule put in front of those of the
\* rules before it
RECURSIVE transformiere_ab_vorangestellt(_, _, _)
transformiere_ab_vorangestellt(k, transformiert, aenderungen) ==
    IF k > Len(Regeln)
    THEN [text |-> transformiert, aenderungen |-> aenderungen]
    ELSE IF finditer(Regeln[k].muster, transformiert) = <<>>
    THEN transformiere_ab_vorangestellt(k + 1, transformiert, aenderungen)
    ELSE transformiere_ab_vorangestellt(k + 1,
             sub(Regeln[k].muster, Regeln[k].ersatz, transformiert),
             aenderungen_fuer(Regeln[k], transformiert,
                 sub(Regeln[k].muster, Regeln[k].ersatz, transformiert))
                 \o aenderungen)

\* the two nested loops of transformiere from the k-th rule on, transformiert
\* and änderungen being what the rules before it left
RECURSIVE transformiere_ab(_, _, _)
transformiere_ab(k, transformiert, aenderungen) ==
    IF k > Len(Regeln)
    THEN [text |-> transformiert, aenderungen |-> aenderungen]
    ELSE IF finditer(Regeln[k].muster, transformiert) = <<>>
    THEN transformiere_ab(k + 1, transformiert, aenderungen)
    ELSE transformiere_ab(k + 1,
             sub(Regeln[k].muster, Regeln[k].ersatz, transformiert),
             aenderungen
                 \o aenderungen_fuer(Regeln[k], transformiert,
                        sub(Regeln[k].muster, Regeln[k].ersatz, transformiert)))

\* transformiere on an instance that rewrites only on its first call: once
\* self.statistik counts a call, the text is returned as it came
transformiere_nur_erstmals(text, stat) ==
    IF text = <<>>
    THEN [text |-> <<>>, aenderungen |-> <<>>, statistik |-> stat]
    ELSE IF stat.transformationen > 0
    THEN [text |-> text, aenderungen |-> <<>>,
          statistik |-> [transformationen |-> stat.transformationen + 1,
                         begriffe |-> stat.begriffe]]
    ELSE [text |-> transformiere_ab(1, text, <<>>).text,
          aenderungen |-> transformiere_ab(1, text, <<>>).aenderungen,
          statistik |->
              [transformationen |-> stat.transformationen + 1,
               begriffe |-> stat.begriffe
                   + Len(transformiere_ab(1, text, <<>>).aenderungen)]]

\* transformiere that counts a call with an empty text as well
transformiere_zaehlt_leere(text, stat) ==
    [text |-> IF text = <<>> THEN <<>> ELSE transformiere_ab(1, text, <<>>).text,
     aenderungen |-> IF text = <<>> THEN <<>>
                     ELSE transformiere_ab(1, text, <<>>).aenderungen,
     statistik |->
         [transformationen |-> stat.transformationen + 1,
          begriffe |-> stat.begriffe
              + (IF text = <<>> THEN 0
                 ELSE Len(transformiere_ab(1, text, <<>>).aenderungen))]]

\* transformiere: the returned pair and self.statistik after the call
transformiere(text, stat) ==
    IF text = <<>>
    THEN [text |-> <<>>, aenderungen |-> <<>>, statistik |-> stat]
    ELSE [text |-> transformiere_ab(1, text, <<>>).text,
          aenderungen |-> transformiere_ab(1, text, <<>>).aenderungen,
          statistik |->
              [transformationen |-> stat.transformationen + 1,
               begriffe |-> stat.begriffe
                   + Len(transformiere_ab(1, text, <<>>).aenderungen)]]

\* zeige_statistik: the dictionary it returns.  zeitstempel, the wall clock,
\* and glossar_geladen, which tells whether the glossary file was there when
\* the instance was built, are left out.
zeige_statistik(stat) ==
    [transformationen_gesamt |-> stat.transformationen,
     begriffe_transformiert |-> stat.begriffe,
     kategorien |-> [k \in 1..Len(transformationen) |-> transformationen[k].kategorie],
     regeln_gesamt |-> Len(Regeln)]

\* p_anzeige before zeige_statistik was called
KeineAnzeige == [keine |-> TRUE]

\* transformiere calls in one run of SpecParser
MaxParserAufrufe == 2

\* pieces an input text of SpecParser is put together from
MaxParserTeile == 3

ParserTeile == {<<"K", "a", "b", "b", "a", "l", "a", "h">>, <<"z", "e", "r", "b", "r", "e", "c", "h", "e",
                               "n">>, <<"T", "i", "k", "k", "u", "n">>, <<" ">>, <<"s">>}

ParserTexte == {Verkette(f) : f \in FolgenBis(ParserTeile, MaxParserTeile)}

\* p_ergebnis before transformiere was called
NichtTransformiert == [text |-> <<>>, aenderungen |-> <<>>]

\* self.statistik as __init__ leaves it
StatistikAnfang == [transformationen |-> 0, begriffe |-> 0]

(***************************************************************************)
(* Specification Spec: producers call sende_nachricht, the consumers run   *)
(* empfange_nachrichten, in any interleaving of their steps.               *)
(***************************************************************************)

Init ==
    /\ g_nachricht = None
    /\ g_ergebnis = NochNicht
    /\ nachrichten_queue = <<>>
    /\ aufrufe = 0
    /\ letzter_aufruf = KeinAufruf
    /\ empfangen = [k \in Konsumenten |-> <<>>]
    /\ verworfen = <<>>
    /\ p_text = <<>>
    /\ p_ergebnis = NichtTransformiert
    /\ p_aufrufe = 0
    /\ statistik = StatistikAnfang
    /\ p_anzeige = KeineAnzeige
    /\ b_nachrichten = <<>>
    /\ bericht = KeinBericht

Sende ==
    /\ aufrufe < MaxAufrufe
    /\ \E nachricht \in GateNachrichten(aufrufe + 1), welt \in GateWelten :
          /\ nachrichten_queue' = sende_nachricht(nachricht, welt, nachrichten_queue).queue
          /\ letzter_aufruf' =
                [ausgang |-> sende_nachricht(nachricht, welt, nachrichten_queue).ausgang,
                 id |-> nachricht.id]
    /\ aufrufe' = aufrufe + 1
    /\ UNCHANGED <<g_nachricht, g_ergebnis, empfangen, verworfen, parser_vars,
                   bericht_vars>>

Empfange(k) ==
    /\ nachrichten_queue # <<>>
    /\ nachrichten_queue' = empfange_nachrichten(modul_name(k), nachrichten_queue).queue
    /\ IF empfange_nachrichten(modul_name(k), nachrichten_queue).yield
       THEN /\ empfangen' = [empfangen EXCEPT ![k] =
                                Append(empfangen[k], Head(nachrichten_queue))]
            /\ UNCHANGED verworfen
       ELSE /\ verworfen' = Append(verworfen, Head(nachrichten_queue))
            /\ UNCHANGED empfangen
    /\ UNCHANGED <<g_nachricht, g_ergebnis, aufrufe, letzter_aufruf, parser_vars,
                   bericht_vars>>

Next == Sende \/ \E k \in Konsumenten : Empfange(k)

Spec == Init /\ [][Next]_vars

\* the event loop runs every consumer that can take a step
FairSpec == Spec /\ \A k \in Konsumenten : WF_vars(Empfange(k))

(***************************************************************************)
(* Specification SpecGate: one sende_nachricht call, on an empty queue, on *)
(* a message drawn from EinzelNachrichten.                                 *)
(***************************************************************************)

InitGate ==
    /\ g_nachricht \in EinzelNachrichten
    /\ g_ergebnis = NochNicht
    /\ nachrichten_queue = <<>>
    /\ aufrufe = 0
    /\ letzter_aufruf = KeinAufruf
    /\ empfangen = [k \in Konsumenten |-> <<>>]
    /\ verworfen = <<>>
    /\ p_text = <<>>
    /\ p_ergebnis = NichtTransformiert
    /\ p_aufrufe = 0
    /\ statistik = StatistikAnfang
    /\ p_anzeige = KeineAnzeige
    /\ b_nachrichten = <<>>
    /\ bericht = KeinBericht

SendeEinzeln ==
    /\ g_ergebnis.ausgang = "NochNicht"
    /\ \E welt \in ErkannteWelten : g_ergebnis' = sende_nachricht(g_nachricht, welt, <<>>)
    /\ UNCHANGED <<g_nachricht, nachrichten_queue, aufrufe, letzter_aufruf,
                   empfangen, verworfen, parser_vars, bericht_vars>>

NextGate == SendeEinzeln

SpecGate == InitGate /\ [][NextGate]_vars

(***************************************************************************)
(* Specification SpecParser: one WWAQGlossarParser, and transformiere      *)
(* called on a text drawn from ParserTexte.                                *)
(***************************************************************************)

InitParser ==
    /\ g_nachricht = None
    /\ g_ergebnis = NochNicht
    /\ nachrichten_queue = <<>>
    /\ aufrufe = 0
    /\ letzter_aufruf = KeinAufruf
    /\ empfangen = [k \in Konsumenten |-> <<>>]
    /\ verworfen = <<>>
    /\ p_text \in ParserTexte
    /\ p_ergebnis = NichtTransformiert
    /\ p_aufrufe = 0
    /\ statistik = StatistikAnfang
    /\ p_anzeige = KeineAnzeige
    /\ b_nachrichten = <<>>
    /\ bericht = KeinBericht

Transformiere ==
    /\ p_aufrufe < MaxParserAufrufe
    /\ p_ergebnis' = [text |-> transformiere(p_text, statistik).text,
                      aenderungen |-> transformiere(p_text, statistik).aenderungen]
    /\ statistik' = transformiere(p_text, statistik).statistik
    /\ p_aufrufe' = p_aufrufe + 1
    /\ UNCHANGED <<komm_vars, p_text, p_anzeige, bericht_vars>>

\* transformiere called on the text the call before it returned
TransformiereErgebnis ==
    /\ p_aufrufe > 0
    /\ p_aufrufe < MaxParserAufrufe
    /\ p_text' = p_ergebnis.text
    /\ p_ergebnis' = [text |-> transformiere(p_ergebnis.text, statistik).text,
                      aenderungen |-> transformiere(p_ergebnis.text, statistik).aenderungen]
    /\ statistik' = transformiere(p_ergebnis.text, statistik).statistik
    /\ p_aufrufe' = p_aufrufe + 1
    /\ UNCHANGED <<komm_vars, p_anzeige, bericht_vars>>

NextParser == Transformiere \/ TransformiereErgebnis

SpecParser == InitParser /\ [][NextParser]_vars

(***************************************************************************)
(* Specification SpecGlossar: one sende_nachricht call, on an empty queue, *)
(* on a message whose texts hold words of the glossary and whose Pardes    *)
(* level the producer may have set.                                        *)
(***************************************************************************)

GlossarInhalte ==
    { <<"K", "a", "b", "b", "a", "l", "a", " ", "E", "m", "a", "n", "a", "t", "i", "o", "n", " ", "T", "i", "q", "q", "u", "n">>,
      <<"H", " ", "E", "m", "a", "n", "a", "t", "i", "o", "n", " ", "T", "i", "q", "q", "u", "n", " ", "z", "e", "r", "b", "r", "e", "c", "h", "e", "n">>,
      <<"K", "a", "b", "b", "a", "l", "a">> }

GlossarWozu == { <<>>, <<"d", "a", "m", "i", "t", " ", "K", "a", "w", "a", "n", "a">>, <<"W", "W", "A", "K">> }

\* pardes_ebene as the producer hands the message over
GesetzteEbenen == {None, "REMEZ", "PSCHAT"}

GlossarNachrichten ==
    {[Nachricht(0, inhalt, wozu, "wwaq-validator", h, w) EXCEPT !.pardes_ebene = e] :
        inhalt \in GlossarInhalte, wozu \in GlossarWozu, h \in { {"WOZU"}, {} },
        w \in {KeinAttribut, "ASIJA", "AZILUT"}, e \in GesetzteEbenen}

InitGlossar ==
    /\ g_nachricht \in GlossarNachrichten
    /\ g_ergebnis = NochNicht
    /\ nachrichten_queue = <<>>
    /\ aufrufe = 0
    /\ letzter_aufruf = KeinAufruf
    /\ empfangen = [k \in Konsumenten |-> <<>>]
    /\ verworfen = <<>>
    /\ p_text = <<>>
    /\ p_ergebnis = NichtTransformiert
    /\ p_aufrufe = 0
    /\ statistik = StatistikAnfang
    /\ p_anzeige = KeineAnzeige
    /\ b_nachrichten = <<>>
    /\ bericht = KeinBericht

SpecGlossar == InitGlossar /\ [][NextGate]_vars

(***************************************************************************)
(* Specification SpecBericht: a caller sends messages, keeps the message   *)
(* objects and asks for the report on those it has kept so far.            *)
(***************************************************************************)

\* messages in the list of one generiere_wozu_bericht call
MaxBericht == 2

BerichtNachrichten(id) ==
    {Nachricht(id, inhalt, wozu, "wwaq-validator", h, w) :
        inhalt \in { <<"K", "a", "b", "b", "a", "l", "a", " ", "E", "m", "a", "n", "a", "t", "i", "o", "n", " ", "T", "i", "q", "q", "u", "n">> },
        wozu \in { <<>>, <<"d", "a", "m", "i", "t", " ", "K", "a", "w", "a", "n", "a">> },
        h \in { {"WOZU"}, {} }, w \in {KeinAttribut, "AZILUT"}}

InitBericht ==
    /\ g_nachricht = None
    /\ g_ergebnis = NochNicht
    /\ nachrichten_queue = <<>>
    /\ aufrufe = 0
    /\ letzter_aufruf = KeinAufruf
    /\ empfangen = [k \in Konsumenten |-> <<>>]
    /\ verworfen = <<>>
    /\ p_text = <<>>
    /\ p_ergebnis = NichtTransformiert
    /\ p_aufrufe = 0
    /\ statistik = StatistikAnfang
    /\ p_anzeige = KeineAnzeige
    /\ b_nachrichten = <<>>
    /\ bericht = KeinBericht

\* sende_nachricht on a message the caller keeps, however the call ends
SendeUndMerke ==
    /\ Len(b_nachrichten) < MaxBericht
    /\ \E nachricht \in BerichtNachrichten(Len(b_nachrichten) + 1),
          welt \in ErkannteWelten :
          /\ nachrichten_queue' =
                sende_nachricht(nachricht, welt, nachrichten_queue).queue
          /\ b_nachrichten' =
                Append(b_nachrichten,
                       sende_nachricht(nachricht, welt, nachrichten_queue).nachricht)
    /\ UNCHANGED <<g_nachricht, g_ergebnis, aufrufe, letzter_aufruf, empfangen,
                   verworfen, parser_vars, bericht>>

Berichte ==
    /\ bericht' = generiere_wozu_bericht(b_nachrichten)
    /\ UNCHANGED <<komm_vars, parser_vars, b_nachrichten>>

NextBericht == SendeUndMerke \/ Berichte

SpecBericht == InitBericht /\ [][NextBericht]_vars

(***************************************************************************)
(* Specification SpecStatistik: one WWAQGlossarParser; transformiere is    *)
(* called on a text drawn from StatistikTexte or on the text the call      *)
(* before returned, and zeige_statistik whenever a caller asks.            *)
(***************************************************************************)

\* pieces a text of SpecStatistik is put together from
MaxStatistikTeile == 2

StatistikTexte == {Verkette(f) : f \in FolgenBis(ParserTeile, MaxStatistikTeile)}

InitStatistik ==
    /\ g_nachricht = None
    /\ g_ergebnis = NochNicht
    /\ nachrichten_queue = <<>>
    /\ aufrufe = 0
    /\ letzter_aufruf = KeinAufruf
    /\ empfangen = [k \in Konsumenten |-> <<>>]
    /\ verworfen = <<>>
    /\ p_text \in StatistikTexte
    /\ p_ergebnis = NichtTransformiert
    /\ p_aufrufe = 0
    /\ statistik = StatistikAnfang
    /\ p_anzeige = KeineAnzeige
    /\ b_nachrichten = <<>>
    /\ bericht = KeinBericht

ZeigeStatistik ==
    /\ p_anzeige' = zeige_statistik(statistik)
    /\ UNCHANGED <<komm_vars, p_text, p_ergebnis, p_aufrufe, statistik, bericht_vars>>

NextStatistik == Transformiere \/ TransformiereErgebnis \/ ZeigeStatistik

SpecStatistik == InitStatistik /\ [][NextStatistik]_vars

(***************************************************************************)
(* Properties                                                              *)
(***************************************************************************)

\* the entries of a tuple of phrases, each once
Phrasen(liste) == {liste[k] : k \in 1..Len(liste)}

\* s occurs in t when the case of the letters is disregarded on both sides
KommtVorOhneCase(s, t) ==
    \E p \in 1..(Len(t) - Len(s) + 1) :
        \A j \in 1..Len(s) : LowerChar(t[p + j - 1]) = LowerChar(s[j])

\* the distinct indicator phrases occurring in a purpose
IndikatorenIn(wozu) == {s \in Phrasen(WOZU_INDIKATOREN) : KommtVorOhneCase(s, wozu)}

\* the distinct domain markers occurring in a text
MarkerIn(text) == {s \in Phrasen(AZILUT_MARKER) : Enthaelt(s, text)}

\* the message of call id is in the queue
InQueue(id) == \E j \in 1..Len(nachrichten_queue) : nachrichten_queue[j].id = id

\* the message of call id was yielded to a consumer draining its recipient
Erhalten(id) ==
    \E k \in Konsumenten : \E j \in 1..Len(empfangen[k]) :
        /\ empfangen[k][j].id = id
        /\ empfangen[k][j].empfaenger_modul = modul_name(k)

\* sende_nachricht of SpecGate returned, True or False, with a verdict
VerdiktErteilt == g_ergebnis.ausgang \in {"True", "False"}

\* C1: a message leaves the delivery channel only by being yielded to a
\* consumer that drains the recipient it is addressed to.
C1_RoutingIsolation ==
    [][(nachrichten_queue # <<>> /\ nachrichten_queue' = Tail(nachrichten_queue))
          => \E k \in Konsumenten :
                /\ modul_name(k) = Head(nachrichten_queue).empfaenger_modul
                /\ empfangen'[k] = Append(empfangen[k], Head(nachrichten_queue))]_vars

\* C2: every message in nachrichten_queue carries a verdict with
\* ist_verankert = TRUE, and a sende_nachricht call that returns False leaves
\* the queue as it was, the rejected message nowhere in it.
C2_RejectedNeverDelivered ==
    [][/\ \A j \in 1..Len(nachrichten_queue') :
              nachrichten_queue'[j].validierung.ist_verankert
       /\ (aufrufe' = aufrufe + 1 /\ letzter_aufruf'.ausgang = "False")
              => /\ nachrichten_queue' = nachrichten_queue
                 /\ \A j \in 1..Len(nachrichten_queue') :
                        nachrichten_queue'[j].id # letzter_aufruf'.id]_vars

\* a sende_nachricht call returned False while accepted messages were queued
C2_Witness ==
    /\ letzter_aufruf.ausgang = "False"
    /\ Len(nachrichten_queue) >= 2

\* C3: for a message built by the EchtzeitNachricht constructor, whatever its
\* purpose and hierarchy, validate returns a verdict, so that sende_nachricht
\* ends with True or False and never with an exception.
C3_ValidateTotal ==
    (g_nachricht.weltebene = KeinAttribut /\ g_ergebnis.ausgang # "NochNicht")
        => g_ergebnis.ausgang \in {"True", "False"}

\* C4: a message with a non-empty purpose is accepted if its score is
\* greater than 0.7 and rejected if it is not, a score of exactly 0.7 included.
C4_StrictThreshold ==
    (g_nachricht.wozu # <<>> /\ g_ergebnis.ausgang # "NochNicht")
        => /\ (g_ergebnis.ausgang = "True")
                  <=> FGt(berechne_azilut_score(g_nachricht), Lit(70))
           /\ (g_ergebnis.ausgang = "False")
                  <=> ~ FGt(berechne_azilut_score(g_nachricht), Lit(70))

\* C5: the verdict of a message whose frage_hierarchie lacks WOZU is never
\* anchored.
C5_NoAnchorWithoutWozuKey ==
    (VerdiktErteilt /\ "WOZU" \notin g_nachricht.frage_hierarchie)
        => ~ g_ergebnis.nachricht.validierung.ist_verankert

\* C6: a message that sende_nachricht accepted and put into the queue is
\* eventually yielded to a consumer that drains its recipient, the consumers
\* being scheduled fairly.
C6_AcceptedEventuallyYielded ==
    \A id \in 1..MaxAufrufe : InQueue(id) ~> Erhalten(id)

\* C7: for an empty purpose, whatever the content and the hierarchy, the
\* verdict has score 0.0, is not anchored, names the missing purpose as its
\* only missing aspect and the clear-purpose advice as its only remediation,
\* and sende_nachricht returns False and enqueues nothing.
C7_MissingPurposeShortCircuit ==
    (g_nachricht.wozu = <<>> /\ g_ergebnis.ausgang # "NochNicht")
        => /\ g_ergebnis.ausgang = "False"
           /\ g_ergebnis.queue = <<>>
           /\ g_ergebnis.nachricht.validierung.azilut_score = Null
           /\ g_ergebnis.nachricht.validierung.ist_verankert = FALSE
           /\ g_ergebnis.nachricht.validierung.fehlende_wozu_aspekte
                  = <<KeinWozuDefiniert>>
           /\ g_ergebnis.nachricht.validierung.empfohlene_korrekturen
                  = <<DefiniereKlarenZweck>>

\* sende_nachricht was called on a constructor-built message with an empty
\* purpose, two markers in its content and WOZU in its hierarchy
C7_Witness ==
    /\ g_nachricht.wozu = <<>>
    /\ g_ergebnis.ausgang # "NochNicht"
    /\ g_nachricht.weltebene = KeinAttribut
    /\ Cardinality(MarkerIn(g_nachricht.inhalt)) = 2
    /\ "WOZU" \in g_nachricht.frage_hierarchie

\* 0.3 + min(0.1 * i, 0.2) + min(0.15 * m, 0.3) + (0.2 or 0), in doubles
PunkteFormel(i, m, hat_wozu_frage) ==
    FAdd(FAdd(FAdd(Lit(30), FMin(FMulInt(i, Lit(10)), Lit(20))),
              FMin(FMulInt(m, Lit(15)), Lit(30))),
         IF hat_wozu_frage THEN Lit(20) ELSE Null)

\* the same sum in hundredths, without rounding
PunkteNominal(i, m, hat_wozu_frage) ==
    30 + (IF 10 * i < 20 THEN 10 * i ELSE 20)
       + (IF 15 * m < 30 THEN 15 * m ELSE 30)
       + (IF hat_wozu_frage THEN 20 ELSE 0)

\* C8: for a non-empty purpose the score is 0.3 + min(0.1 i, 0.2)
\* + min(0.15 m, 0.3) + (0.2 if WOZU is in the hierarchy), i the number of
\* distinct indicator phrases in the purpose, case disregarded, and m the
\* number of distinct markers in content or purpose; the verdict carries it.
C8_ScoreFormula ==
    g_nachricht.wozu # <<>>
        => /\ berechne_azilut_score(g_nachricht)
                  = PunkteFormel(Cardinality(IndikatorenIn(g_nachricht.wozu)),
                        Cardinality(MarkerIn(g_nachricht.inhalt)
                                        \cup MarkerIn(g_nachricht.wozu)),
                        "WOZU" \in g_nachricht.frage_hierarchie)
           /\ berechne_azilut_score(g_nachricht).c
                  = PunkteNominal(Cardinality(IndikatorenIn(g_nachricht.wozu)),
                        Cardinality(MarkerIn(g_nachricht.inhalt)
                                        \cup MarkerIn(g_nachricht.wozu)),
                        "WOZU" \in g_nachricht.frage_hierarchie)
           /\ VerdiktErteilt
                  => g_ergebnis.nachricht.validierung.azilut_score
                         = PunkteFormel(Cardinality(IndikatorenIn(g_nachricht.wozu)),
                               Cardinality(MarkerIn(g_nachricht.inhalt)
                                               \cup MarkerIn(g_nachricht.wozu)),
                               "WOZU" \in g_nachricht.frage_hierarchie)

\* a verdict was given on a purpose whose only indicator is written with a
\* capital, with one marker in both content and purpose and three in all
C8_Witness ==
    /\ VerdiktErteilt
    /\ Cardinality(IndikatorenIn(g_nachricht.wozu)) = 1
    /\ wozu_count_ohne_lower(g_nachricht) = 0
    /\ MarkerIn(g_nachricht.inhalt) \cap MarkerIn(g_nachricht.wozu) # {}
    /\ Cardinality(MarkerIn(g_nachricht.inhalt) \cup MarkerIn(g_nachricht.wozu)) = 3

\* C9: a message with an indicator phrase in its purpose, WOZU in its
\* hierarchy and two distinct markers in its content is accepted with a score
\* of at least 0.9 and is then in the queue, addressed to its recipient.
C9_EndToEndAcceptance ==
    (/\ g_ergebnis.ausgang # "NochNicht"
     /\ IndikatorenIn(g_nachricht.wozu) # {}
     /\ "WOZU" \in g_nachricht.frage_hierarchie
     /\ Cardinality(MarkerIn(g_nachricht.inhalt)) >= 2)
        => /\ g_ergebnis.ausgang = "True"
           /\ ~ FLt(g_ergebnis.nachricht.validierung.azilut_score, Lit(90))
           /\ Len(g_ergebnis.queue) = 1
           /\ g_ergebnis.queue[1].id = g_nachricht.id
           /\ g_ergebnis.queue[1].empfaenger_modul = g_nachricht.empfaenger_modul

\* C10: the position of every change record returned by transformiere is an
\* offset of the returned text at which the record's replacement stands.
C10_PositionInFinalText ==
    \A k \in 1..Len(p_ergebnis.aenderungen) :
        KommtVorAb(p_ergebnis.aenderungen[k].ersatz, p_ergebnis.text,
                   p_ergebnis.aenderungen[k].position + 1)

\* the whole-word occurrences of rule tokens in a text, each the number of
\* its rule and its 1-based start
Vorkommen(text) ==
    {v \in (1..Len(Regeln)) \X (1..Len(text)) : PasstAb(Regeln[v[1]].muster, text, v[2])}

\* by how much the replacements of a set of occurrences lengthen a text
RECURSIVE Laengenzuwachs(_)
Laengenzuwachs(V) ==
    IF V = {} THEN 0
    ELSE Len(Regeln[(CHOOSE v \in V : TRUE)[1]].ersatz)
            - Len(Regeln[(CHOOSE v \in V : TRUE)[1]].muster)
            + Laengenzuwachs(V \ {CHOOSE v \in V : TRUE})

\* how far the rules before the k-th have moved the position p of text
Verschiebung(text, k, p) ==
    Laengenzuwachs({v \in Vorkommen(text) : v[1] < k /\ v[2] < p})

\* the number of the rule a change record names
RegelNr(r) ==
    CHOOSE k \in 1..Len(Regeln) :
        /\ Regeln[k].kategorie = r.kategorie
        /\ Regeln[k].muster = r.original
        /\ Regeln[k].ersatz = r.ersatz

\* the place of a category in the declared order
KategorieRang(kategorie) ==
    CHOOSE n \in 1..Len(transformationen) : transformationen[n].kategorie = kategorie

\* C11: the change list of transformiere has one record for every whole-word
\* occurrence of a rule token in the input and no other, each with the
\* category, token and replacement of its rule and with the start of the match
\* in the text as the earlier rules left it; the records stand in category
\* order, within a category in rule order, within a rule from left to right.
C11_AuditLogExactOrdered ==
    p_aufrufe > 0
        => /\ Len(p_ergebnis.aenderungen) = Cardinality(Vorkommen(p_text))
           /\ \A j \in 1..Len(p_ergebnis.aenderungen) :
                  \E v \in Vorkommen(p_text) :
                      /\ p_ergebnis.aenderungen[j].kategorie = Regeln[v[1]].kategorie
                      /\ p_ergebnis.aenderungen[j].original = Regeln[v[1]].muster
                      /\ p_ergebnis.aenderungen[j].ersatz = Regeln[v[1]].ersatz
                      /\ p_ergebnis.aenderungen[j].position
                             = v[2] - 1 + Verschiebung(p_text, v[1], v[2])
           /\ \A i, j \in 1..Len(p_ergebnis.aenderungen) :
                  i < j
                      => /\ KategorieRang(p_ergebnis.aenderungen[i].kategorie)
                                <= KategorieRang(p_ergebnis.aenderungen[j].kategorie)
                         /\ \/ RegelNr(p_ergebnis.aenderungen[i])
                                   < RegelNr(p_ergebnis.aenderungen[j])
                            \/ /\ RegelNr(p_ergebnis.aenderungen[i])
                                      = RegelNr(p_ergebnis.aenderungen[j])
                               /\ p_ergebnis.aenderungen[i].position
                                      < p_ergebnis.aenderungen[j].position

\* transformiere returned two records of different categories, the first of
\* them for the token that stands later in the text
C11_Witness ==
    /\ p_aufrufe > 0
    /\ Len(p_ergebnis.aenderungen) = 2
    /\ p_ergebnis.aenderungen[1].kategorie # p_ergebnis.aenderungen[2].kategorie
    /\ p_ergebnis.aenderungen[1].position > p_ergebnis.aenderungen[2].position

\* C12: transformiere applied to a text it returned gives that text back with
\* an empty change list, and no replacement of the rule table holds a token
\* that a rule of the table matches.
C12_Idempotence ==
    p_aufrufe > 0
        => /\ transformiere(p_ergebnis.text, statistik).text = p_ergebnis.text
           /\ transformiere(p_ergebnis.text, statistik).aenderungen = <<>>
           /\ \A j, k \in 1..Len(Regeln) :
                  finditer(Regeln[j].muster, Regeln[k].ersatz) = <<>>

\* transformiere was called on the text of a call that had rewritten Kabbalah
\* and found nothing to change
C12_Witness ==
    /\ p_aufrufe = 2
    /\ Enthaelt(<<"Q", "a", "b", "b", "a", "l", "a">>, p_text)
    /\ p_ergebnis.text = p_text
    /\ p_ergebnis.aenderungen = <<>>

\* the words the glossary replaces
GlossarAlt == {K_zu_Q[k][1] : k \in 1..Len(K_zu_Q)}
                 \cup {Zer_Elimination[k][1] : k \in 1..Len(Zer_Elimination)}

\* the text holds no word the glossary replaces
OhneGlossarAlt(text) == \A alt \in GlossarAlt : ~ Enthaelt(alt, text)

\* C13: the gate's steps run in the order normalize, validate, decide, tag,
\* enqueue: whatever way the call ends, content and purpose of the message
\* are the rewritten ones; a verdict is the verdict of the rewritten content
\* and purpose; and a message is tagged, stamped and enqueued exactly when
\* its verdict is anchored, the enqueued message carrying verdict and tag.
C13_GateStepOrder ==
    g_ergebnis.ausgang # "NochNicht" =>
        /\ g_ergebnis.nachricht.inhalt = transform(g_nachricht.inhalt)
        /\ g_ergebnis.nachricht.wozu = transform(g_nachricht.wozu)
        /\ OhneGlossarAlt(g_ergebnis.nachricht.inhalt)
        /\ OhneGlossarAlt(g_ergebnis.nachricht.wozu)
        /\ VerdiktErteilt =>
              /\ g_ergebnis.nachricht.validierung.azilut_score
                    = IF g_ergebnis.nachricht.wozu = <<>> THEN Null
                      ELSE berechne_azilut_score(g_ergebnis.nachricht)
              /\ g_ergebnis.nachricht.validierung.ist_verankert
                    <=> g_ergebnis.ausgang = "True"
        /\ g_ergebnis.ausgang = "True" =>
              /\ g_ergebnis.nachricht.validierung.ist_verankert
              /\ g_ergebnis.nachricht.pardes_ebene # None
              /\ g_ergebnis.nachricht.spiral_zeit # None
              /\ g_ergebnis.queue = <<g_ergebnis.nachricht>>
        /\ g_ergebnis.ausgang # "True" =>
              /\ g_ergebnis.nachricht.pardes_ebene = g_nachricht.pardes_ebene
              /\ g_ergebnis.nachricht.spiral_zeit = None
              /\ g_ergebnis.queue = <<>>

\* a message with a glossary word in content and in purpose was accepted
C13_Witness ==
    /\ g_ergebnis.ausgang = "True"
    /\ g_nachricht.inhalt # g_ergebnis.nachricht.inhalt
    /\ g_nachricht.wozu # g_ergebnis.nachricht.wozu
    /\ g_ergebnis.queue # <<>>

\* C14: what empfange_nachrichten(R) yields is addressed to R, and it yields
\* in the order of arrival: of two messages yielded to a consumer, the one
\* sende_nachricht enqueued first is yielded first, whatever was delivered
\* to or taken by the other consumer in between.
C14_YieldOwnInArrivalOrder ==
    \A k \in Konsumenten :
        /\ \A j \in 1..Len(empfangen[k]) :
               empfangen[k][j].empfaenger_modul = modul_name(k)
        /\ \A i, j \in 1..Len(empfangen[k]) :
               i < j => empfangen[k][i].id < empfangen[k][j].id

\* a consumer was yielded two messages, and between their arrivals a message
\* arrived that was yielded to the other consumer
C14_Witness ==
    \E k, l \in Konsumenten :
        /\ k # l
        /\ Len(empfangen[k]) >= 2
        /\ \E j \in 1..Len(empfangen[l]) :
               /\ empfangen[k][1].id < empfangen[l][j].id
               /\ empfangen[l][j].id < empfangen[k][2].id

\* the times the message of call id was yielded, over all consumers
Ausgaben(id) ==
    Cardinality({<<k, j>> \in Konsumenten \X (1..MaxAufrufe) :
                    j <= Len(empfangen[k]) /\ empfangen[k][j].id = id})

\* the message of call id was taken from the queue and yielded to nobody
Verworfen(id) == \E j \in 1..Len(verworfen) : verworfen[j].id = id

\* C15: every accepted message is yielded exactly once in total: it is never
\* yielded twice, to one consumer or to two, and once it has left the queue
\* it has been yielded.
C15_YieldedExactlyOnce ==
    \A id \in 1..MaxAufrufe :
        /\ Ausgaben(id) <= 1
        /\ Verworfen(id) => Ausgaben(id) = 1

\* C16: a consumer of empfange_nachrichten(R) takes a step that changes the
\* queue only on a message addressed to R.
C16_WakesOnlyForOwnRecipient ==
    [][\A k \in Konsumenten :
          Empfange(k) => Head(nachrichten_queue).empfaenger_modul = modul_name(k)]_vars

\* the level's processor reports that it found nothing: Sod no secret,
\* Drasch no interpretation, Remez no hint; Pschat always gives the literal
\* text
NichtsGefunden(ebene, text) ==
    CASE ebene = "SOD" -> SodSecrets(text) = <<>>
      [] ebene = "DRASCH" -> DraschInterpretations(text) = <<>>
      [] ebene = "REMEZ" -> RemezHints(text) = <<>>
      [] ebene = "PSCHAT" -> FALSE

\* the first of SOD, DRASCH, REMEZ, PSCHAT that found something, or None
HoechsteGefundene(text) ==
    IF ~ NichtsGefunden("SOD", text) THEN "SOD"
    ELSE IF ~ NichtsGefunden("DRASCH", text) THEN "DRASCH"
    ELSE IF ~ NichtsGefunden("REMEZ", text) THEN "REMEZ"
    ELSE IF ~ NichtsGefunden("PSCHAT", text) THEN "PSCHAT"
    ELSE None

\* C17: an accepted message that came without a Pardes level carries the
\* first of SOD, DRASCH, REMEZ, PSCHAT whose processor found something in the
\* rewritten content, and none if none did; an accepted message that came
\* with a level keeps it.
C17_PardesTag ==
    g_ergebnis.ausgang = "True" =>
        /\ g_nachricht.pardes_ebene = None
              => g_ergebnis.nachricht.pardes_ebene
                     = HoechsteGefundene(g_ergebnis.nachricht.inhalt)
        /\ g_nachricht.pardes_ebene # None
              => g_ergebnis.nachricht.pardes_ebene = g_nachricht.pardes_ebene
        /\ g_ergebnis.queue[1].pardes_ebene = g_ergebnis.nachricht.pardes_ebene

\* a message without a level was accepted and tagged SOD, Remez having found
\* no hint in its content
C17_Witness ==
    /\ g_ergebnis.ausgang = "True"
    /\ g_nachricht.pardes_ebene = None
    /\ g_ergebnis.nachricht.pardes_ebene = "SOD"
    /\ NichtsGefunden("REMEZ", g_ergebnis.nachricht.inhalt)

\* a message that came with the level REMEZ was accepted
C17_WitnessGesetzt ==
    /\ g_ergebnis.ausgang = "True"
    /\ g_nachricht.pardes_ebene = "REMEZ"

\* C18: generiere_wozu_bericht returns a report for every list of messages,
\* the empty list included, and raises no error.
C18_ReportTotal ==
    bericht # KeinBericht => bericht.ausgang = "return"

\* generiere_wozu_bericht returned a report on a list that is not empty
C18_BerichtErstellt ==
    /\ bericht # KeinBericht
    /\ bericht.ausgang = "return"
    /\ b_nachrichten # <<>>

\* C19: the verdict of every message sende_nachricht rejects has at least one
\* remediation, so the warning has a score, a first remediation and a list
\* of missing aspects to print.
C19_RejectionHasRemediation ==
    g_ergebnis.ausgang = "False" =>
        /\ Len(g_ergebnis.nachricht.validierung.empfohlene_korrekturen) >= 1
        /\ g_ergebnis.nachricht.validierung.azilut_score \in [c : Nat, e : Int]
        /\ g_ergebnis.nachricht.validierung.fehlende_wozu_aspekte
               \in Seq({KeinWozuDefiniert, WozuFrageNichtInHierarchie,
                        KeineKlarenZweckIndikatoren, ZuStarkInAsija})

\* a message was rejected on its score alone, no aspect missing: its only
\* remediation is the one _generiere_korrekturen always appends
C19_Witness ==
    /\ g_ergebnis.ausgang = "False"
    /\ g_nachricht.wozu # <<>>
    /\ g_ergebnis.nachricht.validierung.fehlende_wozu_aspekte = <<>>
    /\ g_ergebnis.nachricht.validierung.empfohlene_korrekturen = <<VerwendeWWAQSprache>>

\* the missing aspects of a judged message as the three conditions give
\* them: WOZU not in the hierarchy, no indicator phrase in the purpose, the
\* world detected for the message is ASIJA
ErwarteteAspekte(nachricht) ==
    (IF "WOZU" \notin nachricht.frage_hierarchie
     THEN <<WozuFrageNichtInHierarchie>> ELSE <<>>)
    \o (IF IndikatorenIn(nachricht.wozu) = {}
        THEN <<KeineKlarenZweckIndikatoren>> ELSE <<>>)
    \o (IF nachricht.validierung.weltebene = "ASIJA"
        THEN <<ZuStarkInAsija>> ELSE <<>>)

\* C20: a message with a non-empty purpose gets a verdict whose missing
\* aspects are, in this order and one string each, the missing WOZU key, the
\* missing indicator phrase and the ASIJA world, each present exactly when
\* its condition holds.
C20_MissingAspectsOrder ==
    (g_nachricht.wozu # <<>> /\ g_ergebnis.ausgang # "NochNicht")
        => /\ VerdiktErteilt
           /\ g_ergebnis.nachricht.validierung.fehlende_wozu_aspekte
                  = ErwarteteAspekte(g_ergebnis.nachricht)

\* C20 for the messages whose producer assigned the attribute weltebene, the
\* third condition read from that attribute: the list _finde_fehlende_aspekte
\* returns when it returns
C20_MitAttribut ==
    (g_nachricht.wozu # <<>> /\ g_ergebnis.ausgang # "NochNicht"
        /\ g_nachricht.weltebene # KeinAttribut)
        => /\ VerdiktErteilt
           /\ g_ergebnis.nachricht.validierung.fehlende_wozu_aspekte
                  = (IF "WOZU" \notin g_nachricht.frage_hierarchie
                     THEN <<WozuFrageNichtInHierarchie>> ELSE <<>>)
                    \o (IF IndikatorenIn(g_nachricht.wozu) = {}
                        THEN <<KeineKlarenZweckIndikatoren>> ELSE <<>>)
                    \o (IF g_nachricht.weltebene = "ASIJA"
                        THEN <<ZuStarkInAsija>> ELSE <<>>)

\* the suggestion that belongs to a missing aspect
Vorschlag(fehler) ==
    CASE fehler = WozuFrageNichtInHierarchie -> FuegeWozuFrageHinzu
      [] fehler = KeineKlarenZweckIndikatoren -> VerwendeZweckFormulierungen
      [] fehler = ZuStarkInAsija -> ErhebePerspektive

\* the remediation list that belongs to a list of missing aspects: one
\* suggestion for each, in the same order, and the reminder last
ErwarteteKorrekturen(fehlende) ==
    [k \in 1..(Len(fehlende) + 1) |->
        IF k <= Len(fehlende) THEN Vorschlag(fehlende[k]) ELSE VerwendeWWAQSprache]

\* C21: a message with a non-empty purpose gets a verdict whose remediation
\* list has one suggestion for each missing aspect, in the same order, and
\* the canonical-terminology reminder as its last element, anchored or not,
\* so that it is one longer than the list of missing aspects.
C21_RemediationPerAspect ==
    (g_nachricht.wozu # <<>> /\ g_ergebnis.ausgang # "NochNicht")
        => /\ VerdiktErteilt
           /\ g_ergebnis.nachricht.validierung.empfohlene_korrekturen
                  = ErwarteteKorrekturen(
                        g_ergebnis.nachricht.validierung.fehlende_wozu_aspekte)
           /\ Len(g_ergebnis.nachricht.validierung.empfohlene_korrekturen)
                  = Len(g_ergebnis.nachricht.validierung.fehlende_wozu_aspekte) + 1

\* C21 for the messages whose producer assigned the attribute weltebene:
\* the lists validiere_wozu_zentrierung returns when it returns
C21_MitAttribut ==
    (g_nachricht.wozu # <<>> /\ g_ergebnis.ausgang # "NochNicht"
        /\ g_nachricht.weltebene # KeinAttribut)
        => /\ VerdiktErteilt
           /\ g_ergebnis.nachricht.validierung.empfohlene_korrekturen
                  = ErwarteteKorrekturen(
                        g_ergebnis.nachricht.validierung.fehlende_wozu_aspekte)

\* the double lies in [lo/100, hi/100]
FZwischen(x, lo, hi) == ~ FLt(x, Lit(lo)) /\ ~ FGt(x, Lit(hi))

\* C22: the score of every message lies in [0.0, 1.0], and in [0.3, 1.0] when
\* the purpose is not empty; the score a verdict carries lies in [0.0, 1.0],
\* is 0.0 for an empty purpose and at least 0.3 for any other.
C22_ScoreBounds ==
    /\ FZwischen(berechne_azilut_score(g_nachricht), 0, 100)
    /\ g_nachricht.wozu # <<>>
          => FZwischen(berechne_azilut_score(g_nachricht), 30, 100)
    /\ VerdiktErteilt
          => /\ FZwischen(g_ergebnis.nachricht.validierung.azilut_score, 0, 100)
             /\ g_nachricht.wozu = <<>>
                   => g_ergebnis.nachricht.validierung.azilut_score = Null
             /\ g_nachricht.wozu # <<>>
                   => FZwischen(g_ergebnis.nachricht.validierung.azilut_score, 30, 100)

\* a verdict carries the score 1.0, all four contributions at their caps, the
\* message holding more markers than the cap counts
C22_Witness ==
    /\ VerdiktErteilt
    /\ g_ergebnis.nachricht.validierung.azilut_score = Lit(100)
    /\ Cardinality(MarkerIn(g_nachricht.inhalt) \cup MarkerIn(g_nachricht.wozu)) > 2

C24_StatistikZaehlt ==
    /\ [](p_aufrufe = 0 => statistik = [transformationen |-> 0, begriffe |-> 0])
    /\ [][/\ (p_aufrufe' = p_aufrufe + 1 /\ p_text' # <<>>)
               => /\ statistik'.transformationen = statistik.transformationen + 1
                  /\ statistik'.begriffe
                         = statistik.begriffe + Len(p_ergebnis'.aenderungen)
          /\ (p_aufrufe' = p_aufrufe + 1 /\ p_text' = <<>>)
               => /\ statistik' = statistik
                  /\ p_ergebnis' = [text |-> <<>>, aenderungen |-> <<>>]
          /\ p_aufrufe' = p_aufrufe
               => /\ statistik' = statistik
                  /\ p_anzeige'.transformationen_gesamt = statistik.transformationen
                  /\ p_anzeige'.begriffe_transformiert = statistik.begriffe]_vars

\* zeige_statistik reported the counters of a parser that had made two calls
\* on texts that were not empty, each returning a record
C24_Witness ==
    /\ p_aufrufe = 2
    /\ statistik.transformationen = 2
    /\ statistik.begriffe = 2
    /\ p_ergebnis.aenderungen # <<>>
    /\ p_anzeige # KeineAnzeige
    /\ p_anzeige.transformationen_gesamt = 2
    /\ p_anzeige.begriffe_transformiert = statistik.begriffe

\* transformiere was called on the empty text and zeige_statistik after it
C24_LeererAufruf ==
    /\ p_aufrufe > 0
    /\ p_text = <<>>
    /\ statistik = StatistikAnfang
    /\ p_anzeige # KeineAnzeige

====
